---- MODULE Spec2Model ----
(***************************************************************************)
(* The full pipeline of src/server/index.js: GET /api/news/full.           *)
(*   query -> fetchAllYears (fetchNews per year, de-dupe, sort)            *)
(*         -> pLimit(concurrency) jobs {resolveFinalUrl -> scrapeFullText} *)
(*         -> Promise.all -> manifest -> manifest.json -> response         *)
(* One action per suspension point of the handler (an await that waits for *)
(* the network or a timer); the synchronous code between two suspension    *)
(* points is part of the action that runs it.                              *)
(***************************************************************************)
EXTENDS Integers, Sequences, FiniteSets, TLC

(***************************************************************************)
(* Bounds of the model.                                                    *)
(***************************************************************************)
\* years of the window (YEARS has 25 entries in the code, 2025 down to 2001)
NumYears == 2
\* most <item> elements one feed response carries
MaxFeedLen == 2
\* most elements the <body> of a fetched page has
MaxNodes == 3

(***************************************************************************)
(* JavaScript values.                                                      *)
(***************************************************************************)
\* the value undefined / null of a string-valued field
Undefined == "<undefined>"
Null == "<null>"
\* a number that may be NaN
NaN == [nan |-> TRUE, n |-> 0]
Num(k) == [nan |-> FALSE, n |-> k]
\* a query-string parameter: absent, or a string of characters
Absent == [given |-> FALSE, str |-> <<>>]
Str(s) == [given |-> TRUE, str |-> s]

Digits == {"0", "1", "2", "5"}
DigitVal(c) == CASE c = "0" -> 0 [] c = "1" -> 1 [] c = "2" -> 2 [] c = "5" -> 5

\* white space of trim and of \s, as far as the strings of the model have it
IsSpace(c) == c \in {" ", "\n"}

\* String.prototype.trim
RECURSIVE TrimLeft(_)
TrimLeft(s) == IF s # <<>> /\ IsSpace(Head(s)) THEN TrimLeft(Tail(s)) ELSE s
RECURSIVE TrimRight(_)
TrimRight(s) ==
  IF s # <<>> /\ IsSpace(s[Len(s)]) THEN TrimRight(SubSeq(s, 1, Len(s) - 1)) ELSE s
Trim(s) == TrimRight(TrimLeft(s))

\* the leading run of decimal digits of s, as a number (acc so far)
RECURSIVE DigitRun(_, _)
DigitRun(s, acc) ==
  IF s # <<>> /\ Head(s) \in Digits
  THEN DigitRun(Tail(s), 10 * acc + DigitVal(Head(s)))
  ELSE acc

\* parseInt(s, 10): leading white space skipped, an optional sign, then the
\* leading digits; NaN when there is no digit
ParseInt(s) ==
  LET t == TrimLeft(s)
      neg == t # <<>> /\ Head(t) = "-"
      u == IF t # <<>> /\ Head(t) \in {"-", "+"} THEN Tail(t) ELSE t
  IN IF u = <<>> \/ Head(u) \notin Digits THEN NaN
     ELSE Num(IF neg THEN 0 - DigitRun(u, 0) ELSE DigitRun(u, 0))

\* req.query.<p> || dflt : an absent or empty parameter takes the default
OrDefault(p, dflt) == IF p.given /\ p.str # <<>> THEN p.str ELSE dflt

\* x > 0 on a number that may be NaN
Gt0(x) == ~x.nan /\ x.n > 0

\* req.query.query?.trim() : undefined stays undefined
QueryOf(p) == IF p.given THEN Str(Trim(p.str)) ELSE Absent
\* !query : undefined or the empty string
NoQuery(q) == ~q.given \/ q.str = <<>>

(***************************************************************************)
(* The network calls and their timeouts.                                   *)
(***************************************************************************)
\* The timeout option, in ms, each request is issued with: "feed" is the
\* axios.get of fetchNews, "resolve1" the followHttps.get and "resolve2" the
\* axios.get of resolveFinalUrl, "page" the axios.get of scrapeFullText.
\* 0 is no timeout (the default of axios and of follow-redirects).
TimeoutMs(call) ==
  CASE call = "feed" -> 15000
    [] call = "resolve1" -> 0
    [] call = "resolve2" -> 0
    [] call = "page" -> 30000

\* A server that never answers ("silent") ends a request with a timeout as an
\* error does; a request without one stays pending.
TimesOut(call) == TimeoutMs(call) > 0

(***************************************************************************)
(* The feed.                                                               *)
(***************************************************************************)
\* the window's years, oldest first
YEARSAscending == [i \in 1..NumYears |-> 2025 - (NumYears - i)]

YEARS == [i \in 1..NumYears |-> 2025 - (i - 1)]

\* what new Date(s).getTime() makes of the pubDate strings of the feed
GetTime(s) ==
  CASE s = "Mon, 01 Jan 2024" -> Num(1)
    [] s = "Tue, 02 Jan 2024" -> Num(2)
    [] OTHER -> NaN

\* formatDate: null for an empty or unparseable date, else the date's fields
\* (iso stands for toISOString(), which orders as getTime() does)
NoDate == [valid |-> FALSE, iso |-> 0]
formatDate(dateString) ==
  IF dateString = "" THEN NoDate
  ELSE IF GetTime(dateString).nan THEN NoDate
  ELSE [valid |-> TRUE, iso |-> GetTime(dateString).n]

\* The <item> elements the feed can carry: [title, link, pubDate].  An item
\* may lack its <link> (link is then undefined), and a title is any string,
\* the text of another item's link included.
RawItem(t, l, d) == [title |-> t, link |-> l, pubDate |-> d]
RawItems ==
  { RawItem("T", "gn/A", "Mon, 01 Jan 2024"),
    RawItem("T", "gn/B", "Tue, 02 Jan 2024"),
    RawItem("gn/A", Undefined, "Mon, 01 Jan 2024"),
    RawItem("T", Undefined, "Mon, 01 Jan 2024"),
    RawItem("T", "gn/B", "not a date") }

RECURSIVE SeqsUpTo(_, _)
SeqsUpTo(S, n) ==
  IF n = 0 THEN {<<>>}
  ELSE LET shorter == SeqsUpTo(S, n - 1)
       IN shorter \cup { Append(s, x) : s \in {t \in shorter : Len(t) = n - 1}, x \in S }

\* What parser.parse(res.data)?.rss?.channel?.item is after the awaited
\* axios.get: the request or the parse threw ("error"), the server never
\* answers and the request ends with its timeout, if it has one ("silent"),
\* there is no item
\* ("none"), there is exactly one <item>, which the parser hands over as an
\* object and not as an array ("object"), or there are several ("array").
FeedResponses ==
  { [kind |-> "error", item |-> <<>>], [kind |-> "none", item |-> <<>>],
    [kind |-> "silent", item |-> <<>>] }
  \cup { [kind |-> "object", item |-> <<x>>] : x \in RawItems }
  \cup { [kind |-> "array", item |-> s] :
           s \in {t \in SeqsUpTo(RawItems, MaxFeedLen) : Len(t) >= 2} }

\* items.map(...).filter(Boolean) of fetchNews
RECURSIVE MapItems(_)
MapItems(s) ==
  IF s = <<>> THEN <<>>
  ELSE LET d == formatDate(Head(s).pubDate)
       IN IF ~d.valid THEN MapItems(Tail(s))
          ELSE <<[title |-> Head(s).title, link |-> Head(s).link, isoDate |-> d.iso]>>
               \o MapItems(Tail(s))

\* the try block of fetchNews throws: the request or the parse failed, or
\* items.map is called on a lone object (a TypeError)
FeedFails(resp) == resp.kind \in {"error", "object", "silent"}

\* fetchNews without its try/catch: the exception escapes
fetchNewsNoCatch(resp) ==
  IF FeedFails(resp) THEN [threw |-> TRUE, items |-> <<>>]
  ELSE IF resp.kind = "none" THEN [threw |-> FALSE, items |-> <<>>]
  ELSE [threw |-> FALSE, items |-> MapItems(resp.item)]

\* How the promise of fetchNews(query) settles: with the items it returns, or
\* with an exception it lets escape.  The catch turns every exception of the
\* try block into [].
fetchNews(resp) ==
  IF FeedFails(resp) THEN [threw |-> FALSE, items |-> <<>>]
  ELSE IF resp.kind = "none" THEN [threw |-> FALSE, items |-> <<>>]
  ELSE [threw |-> FALSE, items |-> MapItems(resp.item)]

(***************************************************************************)
(* De-dupe and sort of fetchAllYears.                                      *)
(***************************************************************************)
\* the key the filter of fetchAllYears looks up in seen
DedupKey(i) == i.link

RECURSIVE DedupFrom(_, _)
DedupFrom(s, seen) ==
  IF s = <<>> THEN <<>>
  ELSE IF DedupKey(Head(s)) \in seen THEN DedupFrom(Tail(s), seen)
  ELSE <<Head(s)>> \o DedupFrom(Tail(s), seen \cup {DedupKey(Head(s))})

Dedupe(s) == DedupFrom(s, {})

\* a comparator with its operands exchanged: oldest first
CompareAscending(a, b) == a.isoDate - b.isoDate

\* the comparator (a, b) => new Date(b.isoDate) - new Date(a.isoDate)
Compare(a, b) == b.isoDate - a.isoDate

\* an unstable insertion: x goes in front of the elements it compares equal to
RECURSIVE InsertSortedBefore(_, _)
InsertSortedBefore(x, s) ==
  IF s = <<>> THEN <<x>>
  ELSE IF Compare(Head(s), x) < 0 THEN <<Head(s)>> \o InsertSortedBefore(x, Tail(s))
  ELSE <<x>> \o s

\* Array.prototype.sort is stable: x goes behind every element that does not
\* compare after it
RECURSIVE InsertSorted(_, _)
InsertSorted(x, s) ==
  IF s = <<>> THEN <<x>>
  ELSE IF Compare(Head(s), x) <= 0 THEN <<Head(s)>> \o InsertSorted(x, Tail(s))
  ELSE <<x>> \o s

RECURSIVE SortFrom(_, _)
SortFrom(s, acc) ==
  IF s = <<>> THEN acc ELSE SortFrom(Tail(s), InsertSorted(Head(s), acc))

SortByDate(s) == SortFrom(s, <<>>)

DedupeSort(s) == SortByDate(Dedupe(s))

(***************************************************************************)
(* resolveFinalUrl and scrapeFullText: what the network and the disk can   *)
(* answer.                                                                 *)
(***************************************************************************)
\* the publisher page a tracking link redirects to
Publisher(gnUrl) == CASE gnUrl = "gn/A" -> "pub/A" [] gnUrl = "gn/B" -> "pub/B" [] OTHER -> gnUrl

\* How one attempt of resolveFinalUrl can end.  "redirected": the response
\* reports the publisher's URL; "same": it reports no other URL than gnUrl;
\* "error": the request fails; "silent": the server never answers.  A request
\* for undefined can only fail.
ResolveOutcomes(gnUrl) ==
  IF gnUrl = Undefined THEN {"error"} ELSE {"redirected", "same", "error", "silent"}

\* how an attempt ends for resolveFinalUrl: a silent server is an error once
\* the timeout fires, and stays silent when there is none
Ends(call, outcome) == IF outcome = "silent" /\ TimesOut(call) THEN "error" ELSE outcome

\* resp.responseUrl || gnUrl
ResponseUrl(gnUrl, outcome) == IF outcome = "redirected" THEN Publisher(gnUrl) ELSE gnUrl

\* What resolveFinalUrl hands to its caller: a URL it returns, or an exception
\* it lets escape.
Returned(url) == [rejected |-> FALSE, url |-> url]
Rejected == [rejected |-> TRUE, url |-> Undefined]

\* the first attempt answered: return final
ResolveFirst(gnUrl, outcome) == Returned(ResponseUrl(gnUrl, outcome))

\* resolveFinalUrl without its second catch: the failure of the second attempt
\* escapes
ResolveSecondRethrows(gnUrl, outcome) ==
  IF outcome = "error" THEN Rejected ELSE Returned(ResponseUrl(gnUrl, outcome))

\* the second attempt (inside the first catch) ended: the response's URL, or,
\* in the second catch, gnUrl
ResolveSecond(gnUrl, outcome) ==
  IF outcome = "error" THEN Returned(gnUrl) ELSE Returned(ResponseUrl(gnUrl, outcome))

\* The extracted title, after clean(): null, or a string of characters.
NoTitle == [null |-> TRUE, str |-> <<>>]
Title(str) == [null |-> FALSE, str |-> str]
\* the titles the fetched pages have: none, "News", "Manifest", and a title
\* in Bengali script
PageTitles ==
  { NoTitle,
    Title(<<"N", "e", "w", "s">>),
    Title(<<"M", "a", "n", "i", "f", "e", "s", "t">>),
    Title(<<"bn:ka">>) }
\* How the axios.get of scrapeFullText can end: "error" (transport error,
\* HTTP error status), "silent" (no answer: the timeout ends it) or a page.
FetchOutcomes(url) ==
  IF url = Undefined THEN {[kind |-> "error", title |-> NoTitle]}
  ELSE {[kind |-> "error", title |-> NoTitle], [kind |-> "silent", title |-> NoTitle]}
       \cup {[kind |-> "page", title |-> t] : t \in PageTitles}

\* new URL(url).pathname.split("/").filter(Boolean).pop(): the empty string
\* stands for undefined (no segment)
LastSeg(url) ==
  CASE url \in {"gn/A", "pub/A"} -> <<"A">>
    [] url \in {"gn/B", "pub/B"} -> <<"B">>
    [] OTHER -> <<>>

\* The characters of the model's strings, one string each: letters and
\* digits of ASCII, white space, "-", "_", "~", ".", and "bn:ka", a letter of
\* the Bengali script.
IsWordChar(c) ==
  c \in {"A", "B", "M", "N", "a", "b", "c", "e", "f", "i", "j", "l", "m", "n", "o",
         "r", "s", "t", "w"} \cup Digits
toLowerCase(c) ==
  CASE c = "A" -> "a" [] c = "B" -> "b" [] c = "M" -> "m" [] c = "N" -> "n" [] OTHER -> c

\* slugify, first pass: the replacement character "-" becomes a space, and a
\* character outside [\w\s$*_+~.()'"!\-:@] is removed (no character of the
\* model is in slugify's charMap)
SlugPassKeeps(c) == IsWordChar(c) \/ IsSpace(c) \/ c \in {"_", "~", "."}
SlugPass(s) ==
  SelectSeq([k \in DOMAIN s |-> IF s[k] = "-" THEN " " ELSE s[k]], SlugPassKeeps)
\* strict: slug.replace(/[^A-Za-z0-9\s]/g, "")
StrictKeeps(c) == IsWordChar(c) \/ IsSpace(c)
Strict(s) == SelectSeq(s, StrictKeeps)
\* slug.replace(/\s+/g, "-"): the first character of a run of white space
\* becomes "-", the rest of the run goes
DashesKeeps(e) == e.keep
Dashes(s) ==
  LET marked == [k \in DOMAIN s |->
                   [c |-> IF IsSpace(s[k]) THEN "-" ELSE s[k],
                    keep |-> ~IsSpace(s[k]) \/ k = 1 \/ ~IsSpace(s[k - 1])]]
      kept == SelectSeq(marked, DashesKeeps)
  IN [k \in DOMAIN kept |-> kept[k].c]
\* slugify(s, {lower: true, strict: true}); trim is on by default
Slugify(s) ==
  LET d == Dashes(Trim(Strict(SlugPass(s))))
  IN [k \in DOMAIN d |-> toLowerCase(d[k])]

\* .replace(/^\.+/, "")
RECURSIVE StripDots(_)
StripDots(s) == IF s # <<>> /\ Head(s) = "." THEN StripDots(Tail(s)) ELSE s

\* safeFileName(str, fb): str is the title (str || "" is its string, empty
\* for null)
safeFileName(str, fb) ==
  LET a == IF Slugify(str.str) # <<>> THEN Slugify(str.str) ELSE Slugify(fb)
      b == StripDots(a)
  IN SubSeq(b, 1, IF Len(b) < 120 THEN Len(b) ELSE 120)

\* the stem scrapeFullText names the file after: lastSeg || "article" is the
\* fallback
Stem(lastSeg, title) ==
  safeFileName(title, IF lastSeg # <<>> THEN lastSeg
                      ELSE <<"a", "r", "t", "i", "c", "l", "e">>)

\* the outPath scrapeFullText writes to, inside outDir
OutPath(url, title) == Stem(LastSeg(url), title) \o <<".", "j", "s", "o", "n">>

\* path.join(outDir, "manifest.json"), inside outDir
ManifestPath ==
  <<"m", "a", "n", "i", "f", "e", "s", "t", ".", "j", "s", "o", "n">>

\* the outPath of a job that has none
NoPath == <<>>

\* what manifest.json holds once written (an article file holds the url of
\* its article)
ManifestData == "<manifest>"

\* a write that never reaches the disk
WriteFileLost(d, path, data) == d

\* fs.writeFileSync(path, data): the file is created, or its content replaced
WriteFile(d, path, data) ==
  [p \in DOMAIN d \cup {path} |-> IF p = path THEN data ELSE d[p]]

(***************************************************************************)
(* The state of one GET /api/news/full request.                            *)
(***************************************************************************)
VARIABLES
  pc,           \* where the handler stands
  query,        \* req.query.query?.trim()
  limit,        \* parseInt(req.query.limit || "0", 10), from Dispatch on
  concurrency,  \* parseInt(req.query.concurrency || "5", 10), from Dispatch on
  yi,           \* fetchAllYears: index into YEARS of the year being fetched
  feedCalls,    \* fetchAllYears: the years fetchNews was called for, in call order
  allResults,   \* fetchAllYears: the items concatenated so far
  yearLog,      \* fetchAllYears: per year fetched, whether fetchNews ended in
                \* its catch (it logs "RSS error") and the items it returned
  items,        \* what fetchAllYears returned
  picked,       \* the items handed to the pool
  job,          \* per picked item (1-based idx): state of its limitRun job
  queue,        \* p-limit: idx of the jobs waiting for a slot, oldest first
  activeCount,  \* p-limit: jobs holding a slot
  doneOrder,    \* idx of the jobs whose promise has settled, first settled first
  results,      \* what Promise.all(jobs) resolved to, in input order
  manifest,     \* the manifest object, once built
  disk,         \* the files written into data/ by this request: what each
                \* path holds (the url of an article, or the manifest)
  response,     \* what res.status().json() sent: 0 while nothing was sent
  error         \* the exception that left the handler, if one did

\* the variables of the request handler
pvars == <<pc, query, limit, concurrency, yi, feedCalls, allResults, yearLog, items, picked, job,
           queue, activeCount, doneOrder, results, manifest, disk, response, error>>

(***************************************************************************)
(* The state of one extraction (scrapeFullText of index.js, scrapeOne of   *)
(* scraper.js), from the parsed page to the extracted article.             *)
(***************************************************************************)
VARIABLES
  fn,           \* the function that extracts: "scrapeFullText" or "scrapeOne"
  doc,          \* the elements of the page's <body>, in document order
  xpc,          \* where the extraction stands
  body,         \* $body: the content container chosen
  article       \* paragraphs, text and wordCount of the result

xvars == <<fn, doc, xpc, body, article>>

(***************************************************************************)
(* Two requests to /api/news/full served by one process.                   *)
(***************************************************************************)
VARIABLES
  runPc,          \* where the handler of each request stands
  runConcurrency, \* the concurrency each request's limiter was created with
  runJob,         \* the jobs of each request
  runQueue,       \* the queue of each request's limiter
  runActive,      \* the activeCount of each request's limiter
  dataDir,        \* the files of outDir the requests share
  finished        \* the requests whose manifest is written, oldest first

rvars == <<runPc, runConcurrency, runJob, runQueue, runActive, dataDir, finished>>

\* the requests in flight at the same time
Runs == {1, 2}

\* neither request has arrived
RunsIdle ==
  /\ runPc = [r \in Runs |-> "listening"]
  /\ runConcurrency = [r \in Runs |-> 0]
  /\ runJob = [r \in Runs |-> <<>>]
  /\ runQueue = [r \in Runs |-> <<>>]
  /\ runActive = [r \in Runs |-> 0]
  /\ dataDir = <<>>
  /\ finished = <<>>

(***************************************************************************)
(* The server that saves the payload of a query and exports it.            *)
(***************************************************************************)
VARIABLES
  store,        \* DATA_DIR: the payload each file holds, by file name
  lastSaved,    \* the payload /api/news saved last for each query
  storeRes      \* the last response of /api/news or /api/export

svars == <<store, lastSaved, storeRes>>

\* no response yet
NoResponse == [route |-> "none", query |-> <<>>, status |-> 0, body |-> <<>>]

\* DATA_DIR is empty and no request has arrived
StoreIdle ==
  /\ store = <<>>
  /\ lastSaved = <<>>
  /\ storeRes = NoResponse

(***************************************************************************)
(* The article preview of the React page.                                  *)
(***************************************************************************)
VARIABLES
  selected,       \* the clicked list item, 0 for null
  previewHtml,    \* the item whose extracted.rich it holds, 0 for null
  previewText,    \* the item whose extracted.plainText it holds, 0 for null
  previewLoading, \* TRUE while "Loading article..." is shown
  previewError,   \* TRUE when the error message is not the empty string
  pending         \* the /api/article requests not answered yet, per item

uvars == <<selected, previewHtml, previewText, previewLoading, previewError, pending>>

\* the headlines of the list
UiItems == {1, 2, 3}

\* the useState initial values, no request in flight
UiIdle ==
  /\ selected = 0
  /\ previewHtml = 0
  /\ previewText = 0
  /\ previewLoading = FALSE
  /\ previewError = FALSE
  /\ pending = [i \in UiItems |-> 0]

(***************************************************************************)
(* The naming of an article file.                                          *)
(***************************************************************************)
VARIABLES
  namePc,       \* "idle", "scraped" (title and url known), "named"
  nameTitle,    \* the title of the page, NoTitle for null
  nameSeg,      \* the last segment of the url's path, empty for undefined
  nameStem      \* the stem computed for the file

nvars == <<namePc, nameTitle, nameSeg, nameStem>>

\* no page is being named
NamingIdle ==
  /\ namePc = "idle"
  /\ nameTitle = [null |-> TRUE, str |-> <<>>]
  /\ nameSeg = <<>>
  /\ nameStem = <<>>

\*@@GROUPS@@
\* the variables of the other parts of the repository
ovars == <<rvars, svars, uvars, nvars>>
\* they are in their initial state
OthersIdle == RunsIdle /\ StoreIdle /\ UiIdle /\ NamingIdle
\* the variables the actions of a part leave alone
notRuns == <<pvars, xvars, svars, uvars, nvars>>
notStore == <<pvars, xvars, rvars, uvars, nvars>>
notUi == <<pvars, xvars, rvars, svars, nvars>>
notNaming == <<pvars, xvars, rvars, svars, uvars>>

vars == <<pvars, xvars, ovars>>

NoArticle == [paragraphs |-> <<>>, text |-> <<>>, wordCount |-> 0]

\* no page is being extracted
ExtractorIdle ==
  /\ fn = "scrapeFullText"
  /\ doc = <<>>
  /\ xpc = "idle"
  /\ body = <<>>
  /\ article = NoArticle

NoManifest == [built |-> FALSE, requested |-> 0, saved |-> 0, failed |-> 0,
               files |-> <<>>, errors |-> <<>>]

\* A limitRun job.  st: "queued" (waiting in p-limit's queue), "resolve1" and
\* "resolve2" (first and second attempt of resolveFinalUrl in flight), "hung1"
\* and "hung2" (the attempt's request will never be answered and no timer
\* ends it), "scrape" (the axios.get of scrapeFullText in flight), and its
\* outcome: "ok" or "failed".  tries counts the failed attempts of resolveFinalUrl (a
\* successful outcome keeps the count); err names the stage whose exception the job's catch caught.
Job(st, it) ==
  [st |-> st, item |-> it, tries |-> 0, finalUrl |-> Undefined,
   outPath |-> NoPath, err |-> "none"]

\* no request has arrived
PipelineIdle ==
  /\ pc = "listening"
  /\ query = Absent
  /\ limit = NaN
  /\ concurrency = NaN
  /\ yi = 0
  /\ feedCalls = <<>>
  /\ allResults = <<>>
  /\ yearLog = <<>>
  /\ items = <<>>
  /\ picked = <<>>
  /\ job = <<>>
  /\ queue = <<>>
  /\ activeCount = 0
  /\ doneOrder = <<>>
  /\ results = <<>>
  /\ manifest = NoManifest
  /\ disk = <<>>
  /\ response = 0
  /\ error = "none"

Init ==
  /\ PipelineIdle
  /\ ExtractorIdle
  /\ OthersIdle

\* the query strings a client sends
QueryParams == {Absent, Str(<<>>), Str(<<" ">>), Str(<<"q">>), Str(<<" ", "q">>)}
LimitParams == {Absent, Str(<<"0">>), Str(<<"-", "1">>), Str(<<"1">>), Str(<<"2">>), Str(<<"x">>)}
ConcurrencyParams ==
  {Absent, Str(<<"0">>), Str(<<"-", "1">>), Str(<<"1">>), Str(<<"2">>), Str(<<"x">>)}

(***************************************************************************)
(* app.get("/api/news/full"): the request arrives.                         *)
(***************************************************************************)
Request ==
  /\ pc = "listening"
  /\ \E q \in QueryParams :
       /\ query' = QueryOf(q)
       /\ IF NoQuery(QueryOf(q))
          THEN /\ response' = 400
               /\ pc' = "responded"
               /\ yi' = yi
               /\ feedCalls' = feedCalls
          ELSE \* fetchAllYears starts: the first fetchNews is issued
               /\ response' = response
               /\ pc' = "fetchNews"
               /\ yi' = 1
               /\ feedCalls' = <<YEARS[1]>>
  /\ UNCHANGED <<limit, concurrency, allResults, yearLog, items, picked, job,
                 queue, activeCount, doneOrder, results, manifest, disk, error>>
  /\ UNCHANGED <<xvars, ovars>>

(***************************************************************************)
(* fetchAllYears: the year loop.                                           *)
(***************************************************************************)
\* the awaited fetchNews(`${baseQuery} ${y}`) resolves; the 800 ms timer starts
FetchNewsDone ==
  /\ pc = "fetchNews"
  /\ \E resp \in FeedResponses :
       \* a request that neither is answered nor times out never ends
       /\ resp.kind = "silent" => TimesOut("feed")
       /\ LET r == fetchNews(resp)
          IN IF r.threw
             THEN \* nothing in fetchAllYears or in the handler catches it
                  /\ pc' = "crashed"
                  /\ error' = "rss"
                  /\ UNCHANGED <<allResults, yearLog>>
             ELSE /\ allResults' = allResults \o r.items
                  /\ yearLog' = Append(yearLog, [failed |-> FeedFails(resp), items |-> r.items])
                  /\ pc' = "delay"
                  /\ error' = error
  /\ UNCHANGED <<feedCalls, query, limit, concurrency, yi, items, picked, job, queue,
                 activeCount, doneOrder, results, manifest, disk, response>>
  /\ UNCHANGED <<xvars, ovars>>

\* the timer fires with years left: the next fetchNews is issued
DelayNextYear ==
  /\ pc = "delay"
  /\ yi < Len(YEARS)
  /\ yi' = yi + 1
  /\ feedCalls' = Append(feedCalls, YEARS[yi + 1])
  /\ pc' = "fetchNews"
  /\ UNCHANGED <<query, limit, concurrency, allResults, yearLog, items, picked,
                 job, queue, activeCount, doneOrder, results, manifest, disk, response, error>>
  /\ UNCHANGED <<xvars, ovars>>

\* the timer fires after the last year: de-dupe, sort, return unique (the
\* locals of the call, and the log kept of it, end with the call)
FetchAllYearsReturn ==
  /\ pc = "delay"
  /\ yi = Len(YEARS)
  /\ items' = DedupeSort(allResults)
  /\ allResults' = <<>>
  /\ yearLog' = <<>>
  /\ pc' = "fetched"
  /\ UNCHANGED <<feedCalls, query, limit, concurrency, yi, picked, job, queue,
                 activeCount, doneOrder, results, manifest, disk, response, error>>
  /\ UNCHANGED <<xvars, ovars>>

(***************************************************************************)
(* The pool: picked, ensureDir, pLimit, jobs.                              *)
(***************************************************************************)
Min(a, b) == IF a <= b THEN a ELSE b

\* items.slice(0, n) for n > 0
Slice(s, n) == SubSeq(s, 1, Min(n, Len(s)))

\* a pick that tests limit >= 0: limit 0 picks nothing
PickFromZero(its, lim) == IF ~lim.nan /\ lim.n >= 0 THEN Slice(its, lim.n) ELSE its

\* limit > 0 ? items.slice(0, limit) : items
Pick(its, lim) == IF Gt0(lim) THEN Slice(its, lim.n) ELSE its

\* pLimit(concurrency) throws a TypeError unless concurrency is an integer
\* from 1 up
pLimitAccepts(c) == ~c.nan /\ c.n >= 1

\* a limiter that compares activeCount <= concurrency: one job too many
RECURSIVE StartQueuedOffByOne(_, _, _, _)
StartQueuedOffByOne(j, q, a, c) ==
  IF q # <<>> /\ a <= c
  THEN StartQueuedOffByOne([j EXCEPT ![Head(q)].st = "resolve1"], Tail(q), a + 1, c)
  ELSE [job |-> j, queue |-> q, activeCount |-> a]

\* p-limit hands a slot to the oldest queued job while a slot is free: the job
\* function starts and issues the first request of resolveFinalUrl
RECURSIVE StartQueued(_, _, _, _)
StartQueued(j, q, a, c) ==
  IF q # <<>> /\ a < c
  THEN StartQueued([j EXCEPT ![Head(q)].st = "resolve1"], Tail(q), a + 1, c)
  ELSE [job |-> j, queue |-> q, activeCount |-> a]

\* jobs = picked.map((it, idx) => limitRun(...)): every job is enqueued, and
\* the first ones get the free slots
Enqueue(pk, c) ==
  StartQueued([i \in 1..Len(pk) |-> Job("queued", pk[i])],
              [i \in 1..Len(pk) |-> i], 0, c)

\* The lines between the await of fetchAllYears and the await of Promise.all.
\* limit and concurrency are constants of the request, parsed when it arrives
\* and read for the first time here: the request's two parameters are drawn
\* where the handler first reads them.
Dispatch ==
  /\ pc = "fetched"
  /\ \E l \in LimitParams, c \in ConcurrencyParams, dirOk \in BOOLEAN :
       /\ limit' = ParseInt(OrDefault(l, <<"0">>))
       /\ concurrency' = ParseInt(OrDefault(c, <<"5">>))
       /\ picked' = Pick(items, limit')
       /\ IF ~dirOk
          THEN \* ensureDir(outDir) throws
               /\ pc' = "crashed"
               /\ error' = "mkdir"
               /\ UNCHANGED <<job, queue, activeCount>>
          ELSE IF ~pLimitAccepts(concurrency')
          THEN \* pLimit(concurrency) throws
               /\ pc' = "crashed"
               /\ error' = "pLimit"
               /\ UNCHANGED <<job, queue, activeCount>>
          ELSE LET p == Enqueue(picked', concurrency'.n)
               IN /\ job' = p.job
                  /\ queue' = p.queue
                  /\ activeCount' = p.activeCount
                  /\ pc' = "pool"
                  /\ error' = error
  /\ UNCHANGED <<feedCalls, query, yi, allResults, yearLog, items, doneOrder, results, manifest, disk,
                 response>>
  /\ UNCHANGED <<xvars, ovars>>

\* an outcome that reports the path of the URL's last segment, whatever the
\* title the file was named after
OkReportsUrlPath(j, outPath) ==
  [st |-> "ok", item |-> j.item, tries |-> j.tries, finalUrl |-> j.finalUrl,
   outPath |-> OutPath(j.finalUrl, NoTitle), err |-> "none"]

\* the value the job returns after scrapeFullText: { ok: true, ... }
Ok(j, outPath) ==
  [st |-> "ok", item |-> j.item, tries |-> j.tries, finalUrl |-> j.finalUrl,
   outPath |-> outPath, err |-> "none"]
\* the catch of the job: { ok: false, i, item, error }
Failed(j, stage) ==
  [st |-> "failed", item |-> j.item, tries |-> 0, finalUrl |-> Undefined,
   outPath |-> NoPath, err |-> stage]

\* a fail-fast pool: the first failure fails every job still waiting for a slot
SettleCancelsQueued(i, o) ==
  IF o.st = "failed"
  THEN /\ job' = [k \in DOMAIN job |->
                    IF k = i THEN o
                    ELSE IF job[k].st = "queued" THEN Failed(job[k], "cancelled")
                    ELSE job[k]]
       /\ queue' = <<>>
       /\ activeCount' = activeCount - 1
       /\ doneOrder' = Append(doneOrder, i)
  ELSE LET p == StartQueued([job EXCEPT ![i] = o], queue, activeCount - 1, concurrency.n)
       IN /\ job' = p.job
          /\ queue' = p.queue
          /\ activeCount' = p.activeCount
          /\ doneOrder' = Append(doneOrder, i)

\* The job of idx i produced its outcome o: its promise resolves, p-limit
\* takes the slot back and hands it to the oldest queued job.
Settle(i, o) ==
  LET p == StartQueued([job EXCEPT ![i] = o], queue, activeCount - 1, concurrency.n)
  IN /\ job' = p.job
     /\ queue' = p.queue
     /\ activeCount' = p.activeCount
     /\ doneOrder' = Append(doneOrder, i)

\* a job that gives up when both attempts of resolveFinalUrl have failed
AfterResolveGivesUp(i, r, failedTries) ==
  IF r.rejected \/ failedTries = 2
  THEN Settle(i, Failed(job[i], "resolve"))
  ELSE /\ job' = [job EXCEPT ![i].st = "scrape", ![i].finalUrl = r.url,
                             ![i].tries = failedTries]
       /\ UNCHANGED <<queue, activeCount, doneOrder>>

\* resolveFinalUrl handed r to the job: scrapeFullText issues its request, or
\* the job's catch takes the exception
AfterResolve(i, r, failedTries) ==
  IF r.rejected
  THEN Settle(i, Failed(job[i], "resolve"))
  ELSE /\ job' = [job EXCEPT ![i].st = "scrape", ![i].finalUrl = r.url,
                             ![i].tries = failedTries]
       /\ UNCHANGED <<queue, activeCount, doneOrder>>

\* the first attempt of resolveFinalUrl(it.link) ends, or turns out never to
Resolve1Done(i) ==
  /\ pc = "pool"
  /\ i \in DOMAIN job
  /\ job[i].st = "resolve1"
  /\ \E o \in ResolveOutcomes(job[i].item.link) :
       IF Ends("resolve1", o) = "silent"
       THEN \* the promise of the attempt never settles
            /\ job' = [job EXCEPT ![i].st = "hung1"]
            /\ UNCHANGED <<queue, activeCount, doneOrder>>
       ELSE IF Ends("resolve1", o) = "error"
       THEN \* catch: the axios attempt is issued
            /\ job' = [job EXCEPT ![i].st = "resolve2", ![i].tries = 1]
            /\ UNCHANGED <<queue, activeCount, doneOrder>>
       ELSE AfterResolve(i, ResolveFirst(job[i].item.link, o), 0)
  /\ UNCHANGED <<feedCalls, pc, query, limit, concurrency, yi, allResults, yearLog, items,
                 picked, results, manifest, disk, response, error>>
  /\ UNCHANGED <<xvars, ovars>>

\* the second attempt ends, or turns out never to
Resolve2Done(i) ==
  /\ pc = "pool"
  /\ i \in DOMAIN job
  /\ job[i].st = "resolve2"
  /\ \E o \in ResolveOutcomes(job[i].item.link) :
       IF Ends("resolve2", o) = "silent"
       THEN \* the awaited axios.get never settles
            /\ job' = [job EXCEPT ![i].st = "hung2"]
            /\ UNCHANGED <<queue, activeCount, doneOrder>>
       ELSE AfterResolve(i, ResolveSecond(job[i].item.link, Ends("resolve2", o)),
                         IF Ends("resolve2", o) = "error" THEN 2 ELSE 1)
  /\ UNCHANGED <<feedCalls, pc, query, limit, concurrency, yi, allResults, yearLog, items,
                 picked, results, manifest, disk, response, error>>
  /\ UNCHANGED <<xvars, ovars>>

\* The axios.get of scrapeFullText(finalUrl) ends.  A page is parsed and
\* written to outPath in the same turn; any exception ends in the job's catch.
ScrapeDone(i) ==
  /\ pc = "pool"
  /\ i \in DOMAIN job
  /\ job[i].st = "scrape"
  /\ \E f \in FetchOutcomes(job[i].finalUrl), written \in BOOLEAN :
       \* a request that neither is answered nor times out never ends
       /\ f.kind = "silent" => TimesOut("page")
       /\ IF f.kind \in {"error", "silent"}
          THEN /\ Settle(i, Failed(job[i], "fetch"))
               /\ disk' = disk
          ELSE IF ~written
          THEN \* fs.writeFileSync throws
               /\ Settle(i, Failed(job[i], "write"))
               /\ disk' = disk
          ELSE /\ Settle(i, Ok(job[i], OutPath(job[i].finalUrl, f.title)))
               /\ disk' = WriteFile(disk, OutPath(job[i].finalUrl, f.title), job[i].finalUrl)
  /\ UNCHANGED <<feedCalls, pc, query, limit, concurrency, yi, allResults, yearLog, items,
                 picked, results, manifest, response, error>>
  /\ UNCHANGED <<xvars, ovars>>

(***************************************************************************)
(* Promise.all, the manifest, the response.                                *)
(***************************************************************************)
Settled(j) == j.st \in {"ok", "failed"}

\* a filter that lets every outcome through
SelectAll(s, ok) == s

RECURSIVE SelectSeq2(_, _)
SelectSeq2(s, ok) ==
  IF s = <<>> THEN <<>>
  ELSE IF (Head(s).st = "ok") = ok THEN <<Head(s)>> \o SelectSeq2(Tail(s), ok)
  ELSE SelectSeq2(Tail(s), ok)

\* a manifest that counts what fetchAllYears returned, not what was picked
RequestedOfItems(pk) == Len(items)

\* requested: picked.length
Requested(pk) == Len(pk)

\* the manifest object built from results
BuildManifest(pk, res) ==
  [built |-> TRUE,
   requested |-> Requested(pk),
   saved |-> Len(SelectSeq2(res, TRUE)),
   failed |-> Len(SelectSeq2(res, FALSE)),
   files |-> [k \in 1..Len(SelectSeq2(res, TRUE)) |->
                [finalUrl |-> SelectSeq2(res, TRUE)[k].finalUrl,
                 outPath |-> SelectSeq2(res, TRUE)[k].outPath]],
   errors |-> [k \in 1..Len(SelectSeq2(res, FALSE)) |->
                [title |-> SelectSeq2(res, FALSE)[k].item.title,
                 link |-> SelectSeq2(res, FALSE)[k].item.link,
                 msg |-> SelectSeq2(res, FALSE)[k].err]]]

\* Promise.race in the place of Promise.all: the first outcome ends the wait
AnySettled(j) == j = <<>> \/ \E i \in DOMAIN j : Settled(j[i])

\* Promise.all waits for every promise of jobs
AllSettled(j) == \A i \in DOMAIN j : Settled(j[i])

\* an array of the outcomes in the order in which the promises settled
PromiseAllByCompletion(j) == [k \in 1..Len(doneOrder) |-> j[doneOrder[k]]]

\* the array Promise.all(jobs) resolves to: the value of each promise at the
\* index of the promise in jobs
PromiseAll(j) == j

\* Promise.all(jobs) resolves once every job's promise has: results holds the
\* outcomes in the order of jobs, and the manifest is built from them
Join ==
  /\ pc = "pool"
  /\ AllSettled(job)
  /\ results' = PromiseAll(job)
  /\ manifest' = BuildManifest(picked, PromiseAll(job))
  /\ pc' = "manifest"
  /\ UNCHANGED <<feedCalls, query, limit, concurrency, yi, allResults, yearLog, items,
                 picked, job, queue, activeCount, doneOrder, disk, response, error>>
  /\ UNCHANGED <<xvars, ovars>>

\* fs.writeFileSync(manifest.json) and res.json(manifest)
WriteManifest ==
  /\ pc = "manifest"
  /\ \E written \in BOOLEAN :
       IF written
       THEN /\ disk' = WriteFile(disk, ManifestPath, ManifestData)
            /\ response' = 200
            /\ pc' = "responded"
            /\ error' = error
       ELSE /\ pc' = "crashed"
            /\ error' = "manifestWrite"
            /\ UNCHANGED <<disk, response>>
  /\ UNCHANGED <<feedCalls, query, limit, concurrency, yi, allResults, yearLog, items,
                 picked, job, queue, activeCount, doneOrder, results, manifest>>
  /\ UNCHANGED <<xvars, ovars>>

Next ==
  \/ Request
  \/ FetchNewsDone
  \/ DelayNextYear
  \/ FetchAllYearsReturn
  \/ Dispatch
  \/ \E i \in 1..Len(picked) : Resolve1Done(i)
  \/ \E i \in 1..Len(picked) : Resolve2Done(i)
  \/ \E i \in 1..Len(picked) : ScrapeDone(i)
  \/ Join
  \/ WriteManifest

Spec == Init /\ [][Next]_vars

(***************************************************************************)
(* The page and cheerio: elements, selectors, selections.                  *)
(***************************************************************************)
\* An element of the page: its tag, its class, and, for a heading or a
\* paragraph, the text $(el).text() gives.
Element(tag, cls, text) == [tag |-> tag, cls |-> cls, text |-> text]
Elements ==
  { Element("div", "", <<>>),
    Element("div", "post-content", <<>>),
    Element("article", "", <<>>),
    Element("h2", "", <<"h">>),
    Element("h3", "", <<"s">>),
    Element("p", "", <<" ">>),
    Element("p", "", <<"a">>),
    Element("p", "", <<"a", " ", "\n", "b">>) }
\* elements that have child elements
IsContainer(e) == e.tag \in {"div", "article"}

\* The element e at depth d below <body>.  A page is the sequence of its
\* nodes in document order; a node is a child of the nearest node before it
\* that is one level up, and a node of depth 1 is a child of <body>.
Node(e, d) == [tag |-> e.tag, cls |-> e.cls, text |-> e.text, depth |-> d]
CanFollow(s, d) ==
  IF s = <<>> THEN d = 1
  ELSE d <= s[Len(s)].depth + (IF IsContainer(s[Len(s)]) THEN 1 ELSE 0)

\* the pages of at most n elements
RECURSIVE Documents(_)
Documents(n) ==
  IF n = 0 THEN {<<>>}
  ELSE LET shorter == Documents(n - 1)
       IN shorter \cup
          { Append(x[1], Node(x[2], x[3])) :
              x \in { y \in {t \in shorter : Len(t) = n - 1} \X Elements \X (1..n) :
                        CanFollow(y[1], y[3]) } }

\* <body> itself, as a node index
BodyNode == 0

\* the nodes below node j
Descendants(d, j) ==
  IF j = BodyNode THEN DOMAIN d
  ELSE {k \in (j + 1)..Len(d) : \A m \in (j + 1)..k : d[m].depth > d[j].depth}
Ancestors(d, k) == {j \in 1..(k - 1) : k \in Descendants(d, j)}

\* A selector is a sequence of compound selectors joined by the descendant
\* combinator; a compound selector names a tag, a class, or both ("" for any).
Compound(tag, cls) == [tag |-> tag, cls |-> cls]
MatchesCompound(n, c) == (c.tag = "" \/ n.tag = c.tag) /\ (c.cls = "" \/ n.cls = c.cls)
RECURSIVE Matches(_, _, _)
Matches(d, k, sel) ==
  /\ MatchesCompound(d[k], sel[Len(sel)])
  /\ \/ Len(sel) = 1
     \/ \E a \in Ancestors(d, k) : Matches(d, a, SubSeq(sel, 1, Len(sel) - 1))

BODY_SELECTORS ==
  << <<Compound("article", ""), Compound("", "entry-content")>>,
     <<Compound("article", ""), Compound("", "post-content")>>,
     <<Compound("", "single-post"), Compound("", "entry-content")>>,
     <<Compound("", "td-post-content")>>,
     <<Compound("", "tdb-block-inner"), Compound("", "tdb-block-content")>>,
     <<Compound("", "post-content")>>,
     <<Compound("article", "")>>,
     <<Compound("", "content-area")>>,
     <<Compound("", "main-content")>> >>

\* A cheerio selection: node indices in document order.
RECURSIVE InOrder(_)
InOrder(S) ==
  IF S = {} THEN <<>>
  ELSE LET m == CHOOSE x \in S : \A y \in S : x <= y
       IN <<m>> \o InOrder(S \ {m})
\* $(sel)
Select(d, sel) == InOrder({k \in DOMAIN d : Matches(d, k, sel)})
\* .first()
First(selection) == IF selection = <<>> THEN <<>> ELSE <<selection[1]>>
\* $("body")
BodySelection == <<BodyNode>>
\* .find("t1, t2"): the descendants of the selection's elements with such a tag
Find(d, selection, tags) ==
  InOrder({k \in DOMAIN d :
             /\ d[k].tag \in tags
             /\ \E i \in DOMAIN selection : k \in Descendants(d, selection[i])})

\* clean: s.replace(/\s+/g, " ").trim()
RECURSIVE Collapse(_)
Collapse(s) ==
  IF s = <<>> THEN <<>>
  ELSE IF IsSpace(Head(s)) THEN <<" ">> \o Collapse(TrimLeft(Tail(s)))
  ELSE <<Head(s)>> \o Collapse(Tail(s))
clean(s) == Trim(Collapse(s))

(***************************************************************************)
(* The extraction.                                                         *)
(***************************************************************************)
\* the loop over BODY_SELECTORS without its break: the last selector that
\* matches decides
RECURSIVE FirstMatchNoBreak(_, _)
FirstMatchNoBreak(d, sels) ==
  IF sels = <<>> THEN <<>>
  ELSE IF Select(d, sels[Len(sels)]) # <<>> THEN First(Select(d, sels[Len(sels)]))
  ELSE FirstMatchNoBreak(d, SubSeq(sels, 1, Len(sels) - 1))

\* for (const sel of BODY_SELECTORS) if ($(sel).length) { $body =
\* $(sel).first(); break; } : the empty selection stands for a $body left null
RECURSIVE FirstMatch(_, _)
FirstMatch(d, sels) ==
  IF sels = <<>> THEN <<>>
  ELSE IF Select(d, Head(sels)) # <<>> THEN First(Select(d, Head(sels)))
  ELSE FirstMatch(d, Tail(sels))

\* the content container: the loop, then $("article").first(), then, in
\* scrapeFullText only, $("body") (scrapeOne and run stop at article)
Container(f, d) ==
  LET b1 == FirstMatch(d, BODY_SELECTORS)
      b2 == IF b1 = <<>> THEN First(Select(d, <<Compound("article", "")>>)) ELSE b1
  IN IF f = "scrapeFullText" /\ b2 = <<>> THEN BodySelection ELSE b2

\* .each((_, el) => { const t = clean($(el).text()); if (t) blocks.push(t); })
RECURSIVE PushTexts(_, _)
PushTexts(d, selection) ==
  IF selection = <<>> THEN <<>>
  ELSE (IF clean(d[Head(selection)].text) # <<>>
        THEN <<clean(d[Head(selection)].text)>> ELSE <<>>)
       \o PushTexts(d, Tail(selection))

\* blocks after the two passes over $body
ScopedBlocks(d, b) ==
  PushTexts(d, Find(d, b, {"h2", "h3"})) \o PushTexts(d, Find(d, b, {"p"}))

\* an extraction without the wide fallback
NoWideFallback(d, blocks) == blocks

\* if (blocks.length === 0) $("p").each(...)
WideFallback(d, blocks) ==
  IF blocks = <<>> THEN PushTexts(d, Select(d, <<Compound("p", "")>>)) ELSE blocks

\* blocks.join("\n\n")
RECURSIVE Join2(_)
Join2(blocks) ==
  IF blocks = <<>> THEN <<>>
  ELSE IF Len(blocks) = 1 THEN blocks[1]
  ELSE blocks[1] \o <<"\n", "\n">> \o Join2(Tail(blocks))

\* text.split(" ").filter(Boolean).length: the newlines of the join separate
\* nothing
WordsSplitOnBlank(s) ==
  Cardinality({k \in DOMAIN s : s[k] # " " /\ (k = 1 \/ s[k - 1] = " ")})

\* text.split(/\s+/).filter(Boolean).length
RECURSIVE Words(_)
Words(s) ==
  IF s = <<>> THEN 0
  ELSE IF IsSpace(Head(s)) THEN Words(Tail(s))
  ELSE IF Len(s) = 1 \/ IsSpace(s[2]) THEN 1 + Words(Tail(s))
  ELSE Words(Tail(s))

\* the result object
Article(blocks) ==
  [paragraphs |-> blocks,
   text |-> Join2(blocks),
   wordCount |-> IF Join2(blocks) # <<>> THEN Words(Join2(blocks)) ELSE 0]

\* the extractors of the repository: scrapeFullText of the server, scrapeOne
\* of scraper.js, and run, the single-page script
Extractors == {"scrapeFullText", "scrapeOne", "run"}

\* the page, html parsed by cheerio.load, is about to be extracted
InitExtract ==
  /\ PipelineIdle
  /\ fn \in Extractors
  /\ doc \in Documents(MaxNodes)
  /\ xpc = "parsed"
  /\ body = <<>>
  /\ article = NoArticle
  /\ OthersIdle

\* what extractor f returns for page d: paragraphs, text, wordCount
Extracted(f, d) == Article(WideFallback(d, ScopedBlocks(d, Container(f, d))))

\* the synchronous code from "choose content container" to the result object
Extract ==
  /\ xpc = "parsed"
  /\ body' = Container(fn, doc)
  /\ article' = Extracted(fn, doc)
  /\ xpc' = "extracted"
  /\ UNCHANGED <<fn, doc>>
  /\ UNCHANGED <<pvars, ovars>>

NextExtract == Extract

SpecExtract == InitExtract /\ [][NextExtract]_vars

(***************************************************************************)
(* Properties.                                                             *)
(***************************************************************************)
\* the jobs in flight: from the start of resolveFinalUrl to the outcome
InFlight ==
  {i \in DOMAIN job : job[i].st \in {"resolve1", "hung1", "resolve2", "hung2", "scrape"}}

\* the dedup key of the data model: publisherUrl if known (the items of this
\* fetchNews carry none), else the tracking link, else the title
SpecKey(i) == IF i.link # Undefined THEN i.link ELSE i.title

\* the items of the years of the log whose fetchNews did not fail
RECURSIVE Succeeded(_)
Succeeded(log) ==
  IF log = <<>> THEN <<>>
  ELSE (IF Head(log).failed THEN <<>> ELSE Head(log).items) \o Succeeded(Tail(log))

\* C1: every manifest satisfies requested == saved + failed, requested being
\* the number of items fed into the pool (one job each).
C1_RequestedIsSavedPlusFailed ==
  manifest.built =>
    /\ manifest.requested = manifest.saved + manifest.failed
    /\ manifest.requested = Len(job)

\* a manifest of a run cut by limit, with successes and failures
C1_Witness ==
  /\ manifest.built
  /\ manifest.saved >= 1
  /\ manifest.failed >= 1
  /\ Len(picked) < Len(items)

\* C2: at every moment of a run with concurrency bound N at most N items are
\* in flight.
C2_AtMostNInFlight ==
  InFlight # {} => (~concurrency.nan /\ Cardinality(InFlight) <= concurrency.n)

\* the bound is reached while an item waits for a slot
C2_Witness ==
  /\ pc = "pool"
  /\ concurrency.n = 2
  /\ Cardinality(InFlight) = 2
  /\ queue # <<>>

\* manifest.json holds the manifest
ManifestWritten == ManifestPath \in DOMAIN disk /\ disk[ManifestPath] = ManifestData

\* C3: Promise.all returns only after every dispatched item has its outcome,
\* with exactly one outcome per dispatched item, in the items' order; the
\* manifest is built and written only then, and nothing is written to data/
\* after manifest.json.
C3_JoinBeforeManifest ==
  /\ [](manifest.built =>
          /\ AllSettled(job)
          /\ Len(results) = Len(picked)
          /\ \A i \in 1..Len(picked) :
               Settled(results[i]) /\ results[i].item = picked[i])
  /\ [](ManifestWritten => manifest.built)
  /\ [][ManifestWritten => (disk' = disk)]_vars

\* a run of three items answered with its manifest, articles written before it
C3_Witness ==
  /\ pc = "responded"
  /\ response = 200
  /\ Len(results) = 3
  /\ ManifestWritten
  /\ Cardinality(DOMAIN disk) >= 2

\* C4: the failure of one item changes the outcome of no other item.  A step
\* in which an item fails leaves every other job as it is, but for the queued
\* job that takes the freed slot; an outcome, once produced, stays; an item
\* fails only at a stage of its own; no item is left waiting while the pool
\* is idle; every successful item has its outPath.
C4_FailureIsolated ==
  /\ [](\A i \in DOMAIN job :
          /\ job[i].st = "failed" => job[i].err \in {"fetch", "write"}
          /\ job[i].st = "ok" => job[i].outPath # NoPath)
  /\ [](pc = "pool" /\ InFlight = {} => \A i \in DOMAIN job : Settled(job[i]))
  /\ [][\A i \in DOMAIN job : Settled(job[i]) => (job'[i] = job[i])]_vars
  /\ [][\A i, k \in DOMAIN job :
          (i # k /\ job[i].st # "failed" /\ job'[i].st = "failed") =>
            \/ job'[k] = job[k]
            \/ job[k].st = "queued" /\ job'[k] = [job[k] EXCEPT !.st = "resolve1"]]_vars

\* concurrency 2, three items, only the second fails (its page fetch)
C4_Witness ==
  /\ manifest.built
  /\ concurrency.n = 2
  /\ Len(picked) = 3
  /\ job[1].st = "ok" /\ job[1].outPath # NoPath
  /\ job[2].st = "failed" /\ job[2].err = "fetch"
  /\ job[3].st = "ok" /\ job[3].outPath # NoPath
  /\ manifest.requested = 3 /\ manifest.saved = 2 /\ manifest.failed = 1

\* C5: with a non-empty query the call fails only when the manifest (or the
\* directory it goes to) cannot be written, whatever limit and concurrency are.
C5_FailsOnlyOnManifestWrite ==
  pc = "crashed" => error \in {"mkdir", "manifestWrite"}

\* C6: resolveFinalUrl never rejects; a failed first attempt is followed by
\* the second attempt, and when that fails too the tracking URL is returned.
C6_ResolveNeverRejects ==
  \A i \in DOMAIN job :
    /\ job[i].err # "resolve"
    /\ job[i].tries = 1 => job[i].st \in {"resolve2", "hung2", "scrape", "ok"}
    /\ job[i].st = "resolve2" => job[i].tries = 1
    /\ job[i].st = "scrape" =>
         /\ job[i].finalUrl \in {job[i].item.link, Publisher(job[i].item.link)}
         /\ job[i].tries = 2 => job[i].finalUrl = job[i].item.link

\* both attempts failed for a real tracking URL, which is then scraped itself
C6_Witness ==
  \E i \in DOMAIN job :
    /\ job[i].st = "scrape"
    /\ job[i].tries = 2
    /\ job[i].item.link # Undefined
    /\ job[i].finalUrl = job[i].item.link

\* C7: a failed fetchNews adds nothing for its year and never aborts the year
\* loop: every year is fetched, and fetchAllYears returns the de-duplicated,
\* sorted items of the years that did not fail.
C7_FeedFailureDoesNotAbort ==
  /\ [](error # "rss")
  /\ [][(pc = "fetchNews" /\ pc' # "fetchNews") =>
          /\ pc' = "delay"
          /\ Len(yearLog') = yi
          /\ yearLog'[yi].failed => allResults' = allResults]_vars
  /\ [][(pc = "delay" /\ pc' = "fetched") =>
          /\ Len(yearLog) = Len(YEARS)
          /\ items' = DedupeSort(Succeeded(yearLog))]_vars

\* the first year failed, the last year was fetched all the same and gave items
C7_Witness ==
  /\ pc = "delay"
  /\ yi = Len(YEARS)
  /\ yearLog[1].failed
  /\ allResults # <<>>

\* C8: fetchAllYears returns no more items than were fetched, and every
\* fetched item whose dedup key no other fetched item has is returned.
C8_UniqueKeyItemsKept ==
  [][(pc = "delay" /\ pc' = "fetched") =>
       /\ Len(items') <= Len(allResults)
       /\ \A k \in 1..Len(allResults) :
            (\A m \in 1..Len(allResults) :
               m # k => SpecKey(allResults[m]) # SpecKey(allResults[k]))
            => \E n \in 1..Len(items') : items'[n] = allResults[k]]_vars

\* C9: no two items of a list returned by fetchAllYears share a dedup key.
C9_NoSharedDedupKey ==
  \A a, b \in 1..Len(items) : a # b => SpecKey(items[a]) # SpecKey(items[b])

\* C10: the de-dupe and sort of fetchAllYears, applied to a list fetchAllYears
\* returned, gives that list back, item for item.
C10_DedupeSortIdempotent == DedupeSort(items) = items

\* three items returned, two of them of the same date
C10_Witness ==
  /\ pc = "fetched"
  /\ Len(items) = 3
  /\ \E a, b \in 1..Len(items) : a < b /\ items[a].isoDate = items[b].isoDate

\* C11: the list fetchAllYears returns is ordered by date, newest first: no
\* item is older than the item after it, in whatever order the feeds gave them.
C11_NewestFirst ==
  \A k \in 1..(Len(items) - 1) : items[k].isoDate >= items[k + 1].isoDate

\* three items returned, the first of them newer than the last
C11_Witness ==
  /\ pc = "fetched"
  /\ Len(items) = 3
  /\ items[1].isoDate > items[3].isoDate

\* a paragraph or heading whose text is more than white space
NonBlank(n) == \E k \in DOMAIN n.text : ~IsSpace(n.text[k])

\* C12 as stated: paragraphs is non-empty whenever the page has a paragraph
\* element, whatever its text.
C12_ParagraphsWheneverAnyP ==
  (xpc = "extracted" /\ \E k \in DOMAIN doc : doc[k].tag = "p")
    => article.paragraphs # <<>>

\* C12: paragraphs is non-empty whenever a paragraph element with text other
\* than white space exists anywhere in the page, inside the chosen container
\* or not: the wide fallback collects it when the container gave no block.
C12_ParagraphsWheneverTextP ==
  (xpc = "extracted" /\ \E k \in DOMAIN doc : doc[k].tag = "p" /\ NonBlank(doc[k]))
    => article.paragraphs # <<>>

\* a container was chosen that holds no heading and no paragraph, and the
\* wide fallback found a paragraph outside it
C12_Witness ==
  /\ xpc = "extracted"
  /\ body # <<>>
  /\ body # BodySelection
  /\ Find(doc, body, {"h2", "h3", "p"}) = <<>>
  /\ article.paragraphs = << <<"a", " ", "b">> >>

\* C13: an item whose page cannot be fetched or whose file cannot be written
\* ends as a failure, is listed exactly once in manifest.errors and never in
\* manifest.files; a successful item is listed exactly once in files and
\* never in errors; files has one entry per success, errors one per failure.
C13_OneEntryPerOutcome ==
  manifest.built =>
    /\ Len(manifest.files) = Cardinality({i \in DOMAIN results : results[i].st = "ok"})
    /\ Len(manifest.errors) =
         Cardinality({i \in DOMAIN results : results[i].st = "failed"})
    /\ \A i \in DOMAIN results :
         LET it == results[i].item
             inErrors == {k \in DOMAIN manifest.errors :
                            /\ manifest.errors[k].link = it.link
                            /\ manifest.errors[k].title = it.title}
             inFiles == {k \in DOMAIN manifest.files :
                           manifest.files[k].finalUrl \in {it.link, Publisher(it.link)}}
         IN /\ results[i].err \in {"fetch", "write"} <=> results[i].st = "failed"
            /\ results[i].st = "failed" => (Cardinality(inErrors) = 1 /\ inFiles = {})
            /\ results[i].st = "ok" => (Cardinality(inFiles) = 1 /\ inErrors = {})

\* one page could not be fetched, one file could not be written, one item
\* was saved
C13_Witness ==
  /\ manifest.built
  /\ \E i, k, m \in DOMAIN results :
       /\ results[i].err = "fetch"
       /\ results[k].err = "write"
       /\ results[m].st = "ok"
  /\ Len(manifest.files) = 1
  /\ Len(manifest.errors) = 2

\* C14: every network call is issued with a timeout, so that none stays
\* pending for ever: no job waits for an answer that never comes.
C14_NoCallPendsForever ==
  \A i \in DOMAIN job : job[i].st \notin {"hung1", "hung2"}

\* the article files of data/ (until manifest.json is written, every file
\* of the run is one)
ArticleFiles == {p \in DOMAIN disk : disk[p] # ManifestData}
\* the outPaths of the successful outcomes
SavedPaths == {results[i].outPath : i \in {k \in DOMAIN results : results[k].st = "ok"}}

\* C15 as stated: no two workers write to the same path, and the number of
\* distinct article files written equals saved.
C15_DistinctFilesEqualSaved ==
  pc = "manifest" =>
    /\ \A i, k \in DOMAIN results :
         (i # k /\ results[i].st = "ok" /\ results[k].st = "ok")
           => results[i].outPath # results[k].outPath
    /\ Cardinality(ArticleFiles) = manifest.saved

\* C15: each worker writes to the path named after its own page (the slug of
\* the title, else of the URL's last segment); the article files written by
\* the time the manifest is built are the distinct outPaths of the successful
\* outcomes, at most saved of them, and exactly saved when no two successful
\* items have the same outPath.
C15_FilesAreDistinctOutPaths ==
  pc = "manifest" =>
    /\ ArticleFiles = SavedPaths
    /\ Cardinality(ArticleFiles) <= manifest.saved
    /\ Cardinality(ArticleFiles) = manifest.saved <=>
         \A i, k \in DOMAIN results :
           (i # k /\ results[i].st = "ok" /\ results[k].st = "ok")
             => results[i].outPath # results[k].outPath

\* two items of different URLs saved under the same title: one file
C15_Witness ==
  /\ pc = "manifest"
  /\ manifest.saved = 2
  /\ Cardinality(ArticleFiles) = 1
  /\ \E i, k \in DOMAIN results :
       /\ i # k
       /\ results[i].finalUrl # results[k].finalUrl
       /\ results[i].outPath = results[k].outPath

\* C16: with limit > 0 the dispatched items are the first min(limit, number
\* of unique items) items of the date-descending list, in its order; with
\* limit absent, 0, negative or not a number all unique items are dispatched;
\* there is one job per dispatched item, and requested is their number.
C16_LimitPicksPrefix ==
  pc \in {"pool", "manifest", "responded"} /\ response # 400 =>
    /\ IF ~limit.nan /\ limit.n > 0
       THEN /\ Len(picked) = (IF limit.n < Len(items) THEN limit.n ELSE Len(items))
            /\ \A i \in 1..Len(picked) : picked[i] = items[i]
       ELSE picked = items
    /\ Len(job) = Len(picked)
    /\ \A i \in 1..Len(picked) : job[i].item = picked[i]
    /\ manifest.built => manifest.requested = Len(picked)

\* limit 2 cuts a list of three items: the manifest reports requested == 2
C16_Witness ==
  /\ manifest.built
  /\ limit = Num(2)
  /\ Len(items) = 3
  /\ picked = <<items[1], items[2]>>
  /\ manifest.requested = 2

\* C17: when both redirect attempts fail the pool goes on with the tracking
\* URL itself: the page fetched is the tracking link, a failure of the item
\* then comes from the page fetch or the file write alone and leaves no file,
\* and a success reports the tracking link as the resolved URL.
C17_RedirectFailureIsNotItemFailure ==
  /\ [](\A i \in DOMAIN job :
          /\ job[i].err # "resolve"
          /\ (job[i].tries = 2 /\ job[i].st \in {"scrape", "ok"})
               => job[i].finalUrl = job[i].item.link)
  /\ [][\A i \in DOMAIN job :
          (job[i].st = "resolve2" /\ job'[i].st \notin {"resolve2", "hung2"})
            => job'[i].st = "scrape"]_vars
  /\ [][\A i \in DOMAIN job :
          (job[i].st = "scrape" /\ job[i].tries = 2 /\ job'[i].st # "scrape") =>
            \/ /\ job'[i].st = "ok"
               /\ job'[i].finalUrl = job[i].item.link
               /\ job'[i].outPath \in DOMAIN disk'
            \/ /\ job'[i].st = "failed"
               /\ job'[i].err \in {"fetch", "write"}
               /\ disk' = disk]_vars

\* both attempts failed and the item was saved from its tracking link
C17_Witness ==
  \E i \in DOMAIN job :
    /\ job[i].st = "ok"
    /\ job[i].tries = 2
    /\ job[i].finalUrl = job[i].item.link
    /\ job[i].outPath \in DOMAIN disk

\* the place of job i in the completion order
DonePos(i) == CHOOSE k \in DOMAIN doneOrder : doneOrder[k] = i
\* the place of the entry of job i in manifest.files and in manifest.errors
\* (no two picked items have the same link)
FilePos(i) == CHOOSE k \in DOMAIN manifest.files :
                manifest.files[k].finalUrl = job[i].finalUrl
ErrorPos(i) == CHOOSE k \in DOMAIN manifest.errors :
                 manifest.errors[k].link = job[i].item.link
SameKind(i, k) == i # k /\ job[i].st = job[k].st

\* C18 as stated: files and errors are in completion order: an item that
\* completed before another item is listed before it.
C18_ListedInCompletionOrder ==
  manifest.built =>
    \A i, k \in DOMAIN job :
      (SameKind(i, k) /\ DonePos(i) < DonePos(k)) =>
        IF job[i].st = "ok" THEN FilePos(i) < FilePos(k) ELSE ErrorPos(i) < ErrorPos(k)

\* C18: files and errors list the outcomes in the order of the dispatched
\* items, whatever the order in which the workers completed: an item
\* dispatched before another item is listed before it, also when it
\* completed after it.
C18_ListedInDispatchOrder ==
  manifest.built =>
    \A i, k \in DOMAIN job :
      (SameKind(i, k) /\ i < k) =>
        IF job[i].st = "ok" THEN FilePos(i) < FilePos(k) ELSE ErrorPos(i) < ErrorPos(k)

\* the second item was saved before the first, and is listed after it
C18_Witness ==
  /\ manifest.built
  /\ Len(job) >= 2
  /\ job[1].st = "ok"
  /\ job[2].st = "ok"
  /\ DonePos(2) < DonePos(1)
  /\ FilePos(1) = 1
  /\ FilePos(2) = 2

\* C19: fetchAllYears fetches the years one after the other: one fetchNews
\* per year, from the newest year down, at most one request in flight, and
\* the next request is issued only when the one before has completed and the
\* delay after it has elapsed.
C19_YearsFetchedOneByOne ==
  /\ [](\A k \in DOMAIN feedCalls :
          /\ k = 1 => feedCalls[k] = 2025
          /\ k > 1 => feedCalls[k] = feedCalls[k - 1] - 1)
  /\ [](pc = "fetchNews" => Len(feedCalls) = Len(yearLog) + 1)
  /\ [](pc = "delay" => Len(feedCalls) = Len(yearLog))
  /\ [](pc = "fetched" => Len(feedCalls) = NumYears)
  /\ [][feedCalls' # feedCalls =>
          /\ pc \in {"listening", "delay"}
          /\ Len(yearLog) = Len(feedCalls)
          /\ Len(feedCalls') = Len(feedCalls) + 1
          /\ SubSeq(feedCalls', 1, Len(feedCalls)) = feedCalls]_vars

\* the second year's request is in flight after the first year's has
\* completed and the delay has elapsed
C19_Witness ==
  /\ pc = "fetchNews"
  /\ feedCalls = <<2025, 2024>>
  /\ Len(yearLog) = 1

\* the selectors of BODY_SELECTORS, by index, that match an element of the page
MatchingSelectors ==
  {n \in DOMAIN BODY_SELECTORS : \E k \in DOMAIN doc : Matches(doc, k, BODY_SELECTORS[n])}
\* the headings of level 2 and 3 and the paragraphs of the page that have text
TextBlocks == {k \in DOMAIN doc : doc[k].tag \in {"h2", "h3", "p"} /\ NonBlank(doc[k])}

\* C20: in scrapeFullText the extraction scope is the first element, in
\* document order, matched by the first selector of BODY_SELECTORS, in list
\* order, that matches anything; when no selector matches, the scope is the
\* whole <body>, and the headings of level 2 and 3 and the paragraphs with
\* text anywhere in it are collected.
C20_ScopeIsFirstMatchElseBody ==
  (xpc = "extracted" /\ fn = "scrapeFullText") =>
    IF MatchingSelectors # {}
    THEN LET n0 == CHOOSE n \in MatchingSelectors : \A m \in MatchingSelectors : n <= m
             hits == {k \in DOMAIN doc : Matches(doc, k, BODY_SELECTORS[n0])}
         IN body = <<CHOOSE k \in hits : \A m \in hits : k <= m>>
    ELSE /\ body = BodySelection
         /\ Len(article.paragraphs) = Cardinality(TextBlocks)
         /\ \A k \in TextBlocks :
              \E b \in DOMAIN article.paragraphs : article.paragraphs[b] = clean(doc[k].text)

\* no selector matches a page with a heading and a paragraph inside a plain
\* div: the scope is <body> and both are collected
C20_Witness ==
  /\ xpc = "extracted"
  /\ fn = "scrapeFullText"
  /\ MatchingSelectors = {}
  /\ body = BodySelection
  /\ \E h, k \in DOMAIN doc :
       /\ doc[h].tag = "h2" /\ doc[h].depth = 2
       /\ doc[k].tag = "p" /\ doc[k].depth = 2 /\ NonBlank(doc[k])
  /\ Len(article.paragraphs) = 2

\* C21: paragraphs lists the headings of level 2 and 3 and the paragraphs of
\* the chosen scope that have text in document order, also when a heading
\* follows a paragraph.
C21_BlocksInDocumentOrder ==
  (xpc = "extracted" /\ PushTexts(doc, Find(doc, body, {"h2", "h3", "p"})) # <<>>) =>
    article.paragraphs = PushTexts(doc, Find(doc, body, {"h2", "h3", "p"}))

\* the tokens of one block: the places where a run of non-space characters starts
TokensOf(b) == Cardinality({k \in DOMAIN b : ~IsSpace(b[k]) /\ (k = 1 \/ IsSpace(b[k - 1]))})
RECURSIVE SumTokens(_)
SumTokens(blocks) ==
  IF blocks = <<>> THEN 0 ELSE TokensOf(Head(blocks)) + SumTokens(Tail(blocks))

\* C22: wordCount is the number of non-empty whitespace-separated tokens of
\* text, text being the paragraphs joined with a blank line: it is the sum of
\* the token counts of the paragraphs, at least the number of paragraphs, and
\* 0 exactly when paragraphs is empty.
C22_WordCountIsTokenCount ==
  xpc = "extracted" =>
    /\ article.text = Join2(article.paragraphs)
    /\ article.wordCount = TokensOf(article.text)
    /\ article.wordCount = SumTokens(article.paragraphs)
    /\ article.wordCount >= Len(article.paragraphs)
    /\ article.wordCount = 0 <=> article.paragraphs = <<>>

\* two one-word paragraphs inside .post-content: wordCount is 2
C22_Witness ==
  /\ xpc = "extracted"
  /\ Len(doc) = 3
  /\ doc[1].cls = "post-content"
  /\ body = <<1>>
  /\ article.paragraphs = << <<"a">>, <<"a">> >>
  /\ article.text = <<"a", "\n", "\n", "a">>
  /\ article.wordCount = 2

\* two successful items of the run with the same outPath
Collide(i, k) ==
  /\ i # k
  /\ job[i].st = "ok"
  /\ job[k].st = "ok"
  /\ job[i].outPath = job[k].outPath

\* C23: when two items of a run get the same filename neither fails: both
\* are ok with that outPath, both are counted in saved and listed in files,
\* and the file left on disk holds the article of the one whose write came
\* last in completion order, whatever their input order.
C23_SecondWriteWins ==
  manifest.built =>
    \A i, k \in DOMAIN job :
      (Collide(i, k) /\ DonePos(i) < DonePos(k)) =>
        /\ manifest.saved >= 2
        /\ manifest.files[FilePos(i)].outPath = manifest.files[FilePos(k)].outPath
        /\ FilePos(i) # FilePos(k)
        /\ disk[job[k].outPath] = job[k].finalUrl

\* C24: an item is reported ok only once its article file is written, and an
\* item that fails has written none: every ok item's outPath names a file of
\* the run, every file of the run but manifest.json is the outPath of an ok
\* item, and when the manifest is built every outPath of files names a file
\* of the run.
C24_OkOnlyAfterWrite ==
  /\ \A i \in DOMAIN job : job[i].st = "ok" => job[i].outPath \in DOMAIN disk
  /\ \A p \in DOMAIN disk :
       \/ p = ManifestPath /\ ManifestWritten
       \/ \E i \in DOMAIN job : job[i].st = "ok" /\ job[i].outPath = p
  /\ manifest.built =>
       \A k \in DOMAIN manifest.files : manifest.files[k].outPath \in DOMAIN disk

\* the manifest of a run lists a saved item and an item whose page fetch
\* failed: one file was written
C24_Witness ==
  /\ pc = "manifest"
  /\ Len(manifest.files) = 1
  /\ \E i \in DOMAIN job : job[i].err = "fetch" /\ job[i].item.link # Undefined
  /\ Cardinality(DOMAIN disk) = 1
  /\ manifest.files[1].outPath \in DOMAIN disk

\* C25: writing the manifest overwrites no article file of the run: no
\* successful item's outPath is the manifest's path.
C25_ManifestOverwritesNoArticle ==
  \A i \in DOMAIN job : job[i].st = "ok" => job[i].outPath # ManifestPath

(***************************************************************************)
(* Overlapping requests: each handler creates its own limiter and writes   *)
(* the one manifest.json of outDir.                                        *)
(***************************************************************************)
\* the most items a request of this specification picks
MaxJobs == 3

\* the values of ?concurrency= that pLimit accepts here
RunConcurrencies == {1, 2}

\* a limiter created once, by the first request, and used by every request
ConcurrencyOfFirstRun(r) == runConcurrency[1]

\* the concurrency of the limiter the jobs of request r go through:
\* limitRun = pLimit(concurrency) is created inside the handler, from the
\* request's own parameter
Concurrency(r) == runConcurrency[r]

\* The handler of request r from the return of fetchAllYears to the await of
\* Promise.all: picked, ensureDir, pLimit(concurrency), jobs.
RunDispatch(r) ==
  /\ runPc[r] = "listening"
  /\ \E c \in RunConcurrencies, n \in 0..MaxJobs :
       /\ pLimitAccepts([nan |-> FALSE, n |-> c])
       /\ runConcurrency' = [runConcurrency EXCEPT ![r] = c]
       /\ LET p == Enqueue([i \in 1..n |-> i], Concurrency(r)')
          IN /\ runJob' = [runJob EXCEPT ![r] = p.job]
             /\ runQueue' = [runQueue EXCEPT ![r] = p.queue]
             /\ runActive' = [runActive EXCEPT ![r] = p.activeCount]
  /\ runPc' = [runPc EXCEPT ![r] = "pool"]
  /\ UNCHANGED <<dataDir, finished>>
  /\ UNCHANGED notRuns

\* The job i of request r returns, from its try or from its catch: the
\* limiter of r takes the slot back and hands it to r's oldest queued job.
RunSettle(r, i) ==
  /\ runPc[r] = "pool"
  /\ i \in DOMAIN runJob[r]
  /\ runJob[r][i].st = "resolve1"
  /\ \E ok \in BOOLEAN :
       LET o == IF ok THEN Ok(runJob[r][i], NoPath) ELSE Failed(runJob[r][i], "fetch")
           p == StartQueued([runJob[r] EXCEPT ![i] = o], runQueue[r],
                            runActive[r] - 1, Concurrency(r))
       IN /\ runJob' = [runJob EXCEPT ![r] = p.job]
          /\ runQueue' = [runQueue EXCEPT ![r] = p.queue]
          /\ runActive' = [runActive EXCEPT ![r] = p.activeCount]
  /\ UNCHANGED <<runPc, runConcurrency, dataDir, finished>>
  /\ UNCHANGED notRuns

\* Promise.all(jobs) of request r resolves: the manifest of r is built and
\* written to outDir/manifest.json, and sent
RunFinish(r) ==
  /\ runPc[r] = "pool"
  /\ AllSettled(runJob[r])
  /\ \E written \in BOOLEAN :
       IF written
       THEN /\ dataDir' = WriteFile(dataDir, ManifestPath, r)
            /\ finished' = Append(finished, r)
            /\ runPc' = [runPc EXCEPT ![r] = "responded"]
       ELSE \* fs.writeFileSync throws
            /\ runPc' = [runPc EXCEPT ![r] = "crashed"]
            /\ UNCHANGED <<dataDir, finished>>
  /\ UNCHANGED <<runConcurrency, runJob, runQueue, runActive>>
  /\ UNCHANGED notRuns

InitRuns ==
  /\ PipelineIdle
  /\ ExtractorIdle
  /\ OthersIdle

NextRuns ==
  \/ \E r \in Runs : RunDispatch(r)
  \/ \E r \in Runs : \E i \in 1..MaxJobs : RunSettle(r, i)
  \/ \E r \in Runs : RunFinish(r)

SpecRuns == InitRuns /\ [][NextRuns]_vars

\* the jobs of request r whose function has started and not returned
RunInFlight(r) == {i \in DOMAIN runJob[r] : runJob[r][i].st = "resolve1"}

C26_WitnessLastWriter ==
  /\ finished = <<2, 1>>
  /\ dataDir[ManifestPath] = 1

\* C27: the extractors agree: whatever page one of them has extracted, each
\* of the others returns the same paragraphs, text and wordCount for it.
C27_ExtractorsAgree ==
  xpc = "extracted" => \A f \in Extractors : Extracted(f, doc) = article

(***************************************************************************)
(* /api/news saves the payload of a query, /api/export downloads it.       *)
(***************************************************************************)
\* the values of ?query=: a word in either case, two words written with a
\* space and with a dash, one and two letters of the Bengali script, white
\* space, the empty string, and no parameter
StoreQueryParams ==
  {Absent, Str(<<>>), Str(<<" ">>), Str(<<"a">>), Str(<<"A">>), Str(<<" ", "a">>),
   Str(<<"a", " ", "b">>), Str(<<"a", "-", "b">>), Str(<<"bn:ka">>),
   Str(<<"bn:ka", "bn:ka">>)}

\* the numbers of items a payload returns
ReturnedCounts == {0, 1}

\* path.join(DATA_DIR, `${slug}.json`) with slug = slugify(q, {lower: true,
\* strict: true}), in saveResultToDisk and in /api/export alike
FileOf(q) == Slugify(q) \o <<".", "j", "s", "o", "n">>

\* saveResultToDisk(baseQuery, payload)
saveResultToDisk(d, baseQuery, payload) == WriteFile(d, FileOf(baseQuery), payload)

\* GET /api/news?query=...: 400 without a query, 500 when fetchAllYears
\* throws, else the payload is saved and sent
ApiNews ==
  /\ \E p \in StoreQueryParams, n \in ReturnedCounts, fetched \in BOOLEAN :
       LET q == QueryOf(p)
           payload == [query |-> q.str, returned |-> n]
       IN IF q = Absent \/ q.str = <<>>
          THEN /\ storeRes' = [route |-> "news", query |-> q.str, status |-> 400,
                               body |-> <<>>]
               /\ UNCHANGED <<store, lastSaved>>
          ELSE IF ~fetched
          THEN /\ storeRes' = [route |-> "news", query |-> q.str, status |-> 500,
                               body |-> <<>>]
               /\ UNCHANGED <<store, lastSaved>>
          ELSE /\ store' = saveResultToDisk(store, q.str, payload)
               /\ lastSaved' = [x \in DOMAIN lastSaved \cup {q.str} |->
                                  IF x = q.str THEN payload ELSE lastSaved[x]]
               /\ storeRes' = [route |-> "news", query |-> q.str, status |-> 200,
                               body |-> payload]
  /\ UNCHANGED notStore

\* GET /api/export?query=...: 400 without a query, 404 when the file of the
\* query's slug does not exist, else the file is downloaded
ApiExport ==
  /\ \E p \in StoreQueryParams :
       LET q == QueryOf(p)
       IN storeRes' =
            IF q = Absent \/ q.str = <<>>
            THEN [route |-> "export", query |-> q.str, status |-> 400, body |-> <<>>]
            ELSE IF FileOf(q.str) \notin DOMAIN store
            THEN [route |-> "export", query |-> q.str, status |-> 404, body |-> <<>>]
            ELSE [route |-> "export", query |-> q.str, status |-> 200,
                  body |-> store[FileOf(q.str)]]
  /\ UNCHANGED <<store, lastSaved>>
  /\ UNCHANGED notStore

InitStore ==
  /\ PipelineIdle
  /\ ExtractorIdle
  /\ OthersIdle

NextStore ==
  \/ ApiNews
  \/ ApiExport

SpecStore == InitStore /\ [][NextStore]_vars

\* C28: save and export by query round-trip: an export of a query for which
\* /api/news has saved a payload answers 200 with the payload saved last for
\* that query, whatever was saved for other queries in between.
C28_ExportReturnsSavedPayload ==
  (storeRes.route = "export" /\ storeRes.query \in DOMAIN lastSaved) =>
    /\ storeRes.status = 200
    /\ storeRes.body = lastSaved[storeRes.query]

(***************************************************************************)
(* The preview box: headline clicks, Close, and the answers of             *)
(* /api/article.                                                           *)
(***************************************************************************)
\* the most /api/article requests in flight at once
MaxPending == 2

\* the sum of the requests in flight
RECURSIVE SumPending(_, _)
SumPending(f, S) ==
  IF S = {} THEN 0
  ELSE LET i == CHOOSE x \in S : TRUE IN f[i] + SumPending(f, S \ {i})

\* what /api/article answers: extracted.rich, extracted.plainText, neither,
\* or the fetch fails
ArticleAnswers == {"rich", "plainText", "nothing", "throws"}

\* handleOpenArticle(item) up to its await: the states are reset, the item is
\* selected and the request is sent
OpenArticle(item) ==
  /\ SumPending(pending, UiItems) < MaxPending
  /\ selected' = item
  /\ previewHtml' = 0
  /\ previewText' = 0
  /\ previewError' = FALSE
  /\ previewLoading' = TRUE
  /\ pending' = [pending EXCEPT ![item] = @ + 1]
  /\ UNCHANGED notUi

\* handleOpenArticle(item) after its await: the answer of the request for
\* item is stored, whatever is selected by now, and loading ends
ArticleResponse(item) ==
  /\ pending[item] > 0
  /\ pending' = [pending EXCEPT ![item] = @ - 1]
  /\ \E a \in ArticleAnswers :
       /\ previewHtml' = IF a = "rich" THEN item ELSE previewHtml
       /\ previewText' = IF a = "plainText" THEN item ELSE previewText
       /\ previewError' = IF a \in {"nothing", "throws"} THEN TRUE ELSE previewError
  /\ previewLoading' = FALSE
  /\ UNCHANGED selected
  /\ UNCHANGED notUi

\* the onClick of the Close button
ClosePreview ==
  /\ selected # 0
  /\ selected' = 0
  /\ previewHtml' = 0
  /\ previewText' = 0
  /\ previewError' = FALSE
  /\ UNCHANGED <<previewLoading, pending>>
  /\ UNCHANGED notUi

InitUi ==
  /\ PipelineIdle
  /\ ExtractorIdle
  /\ OthersIdle

NextUi ==
  \/ \E item \in UiItems : OpenArticle(item)
  \/ \E item \in UiItems : ArticleResponse(item)
  \/ ClosePreview

SpecUi == InitUi /\ [][NextUi]_vars

\* the preview box is rendered and shows extracted content
PreviewDisplayed ==
  /\ selected # 0
  /\ ~previewLoading
  /\ ~previewError
  /\ previewHtml # 0 \/ previewText # 0

\* the item whose content the box shows: previewHtml before previewText
PreviewShown == IF previewHtml # 0 THEN previewHtml ELSE previewText

\* C29: whenever loading has ended and a preview is displayed (the box is
\* rendered only while an item is selected), it is the extraction result of
\* the item selected now, whatever the order of clicks and answers.
C29_PreviewIsOfSelected == PreviewDisplayed => PreviewShown = selected

(***************************************************************************)
(* The stem of an article file, for titles and last segments of all kinds. *)
(***************************************************************************)
\* the titles a page can have: none, words, a title in the Bengali script,
\* punctuation only, and one of 121 letters
NameTitles ==
  {NoTitle, Title(<<"N", "e", "w", "s">>), Title(<<"a", " ", "b">>), Title(<<"A">>),
   Title(<<"bn:ka">>), Title(<<"bn:ka", " ", "bn:ka">>), Title(<<"~">>),
   Title([k \in 1..121 |-> "a"])}

\* the last segments a path can have: none (the path is "/"), words, a file
\* name, and segments without a letter or digit
NameSegs ==
  {<<>>, <<"A">>, <<"a", "-", "b">>, <<"a", ".", "b">>, <<"~">>, <<"_">>, <<"-">>}

\* the first n characters of s
Prefix(s, n) == SubSeq(s, 1, IF Len(s) < n THEN Len(s) ELSE n)

\* lines 149-153 of scrapeFullText: lastSeg and safeFileName(title, lastSeg
\* || "article")
NameFile ==
  /\ namePc = "scraped"
  /\ nameStem' = Stem(nameSeg, nameTitle)
  /\ namePc' = "named"
  /\ UNCHANGED <<nameTitle, nameSeg>>
  /\ UNCHANGED notNaming

InitNaming ==
  /\ PipelineIdle
  /\ ExtractorIdle
  /\ RunsIdle
  /\ StoreIdle
  /\ UiIdle
  /\ namePc = "scraped"
  /\ nameTitle \in NameTitles
  /\ nameSeg \in NameSegs
  /\ nameStem = <<>>

NextNaming == NameFile

SpecNaming == InitNaming /\ [][NextNaming]_vars

\* C30: the stem of the file is never empty and never longer than 120
\* characters: it is the slug of the title when that is not empty, else the
\* slug of the last path segment when that is not empty, else a default.
C30_StemIsNonEmpty ==
  namePc = "named" =>
    /\ nameStem # <<>>
    /\ Len(nameStem) <= 120
    /\ Slugify(nameTitle.str) # <<>> => nameStem = Prefix(Slugify(nameTitle.str), 120)
    /\ (Slugify(nameTitle.str) = <<>> /\ Slugify(nameSeg) # <<>>) =>
         nameStem = Prefix(Slugify(nameSeg), 120)

====
